---- MODULE Spec2Model ----
(***************************************************************************)
(* Meal Agent: the recommendation pipeline (filters, weights, ranking),    *)
(* the conversation state machine of MealAgent.Chat and the history        *)
(* ledger, modelled from the Go sources.                                   *)
(*                                                                         *)
(* Text is modelled as a sequence of characters; every Chinese character   *)
(* is written as one token (its pinyin, with a tone digit where two        *)
(* different characters would otherwise share a token), so that            *)
(* strings.Contains is a real substring search.                            *)
(***************************************************************************)
EXTENDS Integers, Sequences, FiniteSets, TLC

(* ------------------------------ bounds -------------------------------- *)
MaxRecords == 2      \* records the ledger may hold
MaxMsgs    == 3      \* messages the conversation may hold
MaxCands   == 3      \* candidates the places provider returns at most

(* ------------------------------ strings ------------------------------- *)
\* strings.Contains(s, sub)
Contains(s, sub) ==
    \E i \in 0..(Len(s) - Len(sub)) : \A j \in 1..Len(sub) : s[i + j] = sub[j]

ContainsAny(s, subs) == \E k \in 1..Len(subs) : Contains(s, subs[k])

\* Go integer division and float-to-int conversion truncate toward zero
TruncDiv(a, b) == IF a >= 0 THEN a \div b ELSE -((-a) \div b)

\* the index of the first separator at or after position k, 0 if none
RECURSIVE IndexFrom(_, _, _)
IndexFrom(s, c, k) ==
    IF k > Len(s) THEN 0
    ELSE IF s[k] = c THEN k ELSE IndexFrom(s, c, k + 1)

\* strings.Split(s, ";")
RECURSIVE Split(_)
Split(s) ==
    LET k == IndexFrom(s, ";", 1) IN
    IF k = 0 THEN <<s>>
    ELSE <<SubSeq(s, 1, k - 1)>> \o Split(SubSeq(s, k + 1, Len(s)))

\* extractCategory: the third part of "a;b;c", else the second, else all
extractCategory(typeStr) ==
    LET parts == Split(typeStr) IN
    IF Len(parts) >= 3 THEN parts[3]
    ELSE IF Len(parts) >= 2 THEN parts[2]
    ELSE typeStr

(* --------------------------- keyword tables --------------------------- *)
\* Chat: the phrases that trigger parseExclusion
exclusionTriggers ==
    << <<"bu", "xiang3", "chi">>, <<"bu", "yao">>, <<"bu", "chi">>,
       <<"huan", "yi", "ge">> >>

\* parseExclusion: the fixed vocabulary, in source order
keywords ==
    << <<"huo", "guo">>, <<"chuan", "cai">>, <<"xiang1", "cai">>,
       <<"shao", "kao">>, <<"ri", "liao">>, <<"han2", "can">>,
       <<"xi", "can">>, <<"mian">>, <<"mi", "fan">>, <<"kuai", "can">>,
       <<"ma", "la4">>, <<"qing", "dan">>, <<"you2", "ni">>,
       <<"yue", "cai">>, <<"dong", "bei", "cai">>, <<"ben", "bang", "cai">>,
       <<"lu", "cai">>, <<"hui", "cai">>, <<"pi", "sa">>, <<"han4", "bao3">>,
       <<"zha", "ji">>, <<"kao", "rou">>, <<"shou", "si">>, <<"la1", "mian">>,
       <<"jiao", "zi">>, <<"bao1", "zi">>, <<"xiao", "chi">>,
       <<"tian", "pin">>, <<"nai", "cha">> >>

\* isConfirmation
confirmKeywords ==
    << <<"jiu", "zhe", "ge">>, <<"jiu", "chi">>, <<"hao3", "de">>,
       <<"que", "ding">>, <<"jiu", "ta">>, <<"xuan", "zhe", "ge">>,
       <<"di", "yi", "ge">>, <<"di", "er", "ge">>, <<"di", "san", "ge">> >>

\* Chat: the phrases that request a recommendation
recommendKeywords ==
    << <<"tui", "jian">>, <<"chi", "shen", "me">>, <<"you3", "shen", "me">> >>

\* extractSelection: ordinal patterns with their 0-based index, in order
orderPatterns ==
    << [pattern |-> <<"di", "yi">>,  index |-> 0],
       [pattern |-> <<"1", "hao4">>, index |-> 0],
       [pattern |-> <<"di", "1">>,   index |-> 0],
       [pattern |-> <<"di", "er">>,  index |-> 1],
       [pattern |-> <<"2", "hao4">>, index |-> 1],
       [pattern |-> <<"di", "2">>,   index |-> 1],
       [pattern |-> <<"di", "san">>, index |-> 2],
       [pattern |-> <<"3", "hao4">>, index |-> 2],
       [pattern |-> <<"di", "3">>,   index |-> 2] >>

\* extractSelection: the bare phrases that default to the first candidate
defaultPhrases ==
    << <<"jiu", "zhe", "ge">>, <<"jiu", "ta">>, <<"hao3", "de">> >>

(* ------------------------ filters and ranking ------------------------- *)
\* FilterByBlacklist: drop the candidates whose name is on the list
FilterByBlacklist(restaurants, blacklist) ==
    LET keep(r) == \A k \in 1..Len(blacklist) : blacklist[k] # r.name
    IN  SelectSeq(restaurants, keep)

\* a filter that looks at the type only
FilterByTypeOnly(restaurants, excludeTypes) ==
    LET keep(r) == \A k \in 1..Len(excludeTypes) :
                       ~Contains(r.type, excludeTypes[k])
    IN  SelectSeq(restaurants, keep)

\* FilterByType: drop the candidates whose type or name contains a keyword
FilterByType(restaurants, excludeTypes) ==
    LET keep(r) == \A k \in 1..Len(excludeTypes) :
                       ~(Contains(r.type, excludeTypes[k])
                         \/ Contains(r.name, excludeTypes[k]))
    IN  SelectSeq(restaurants, keep)

\* a filter that keeps every candidate
FilterByWeightKeepAll(restaurants) == restaurants

\* FilterByWeight: drop the candidates of weight 0 or less
FilterByWeight(restaurants) ==
    LET keep(r) == r.weight > 0 IN SelectSeq(restaurants, keep)

Swap(s, i, j) == [s EXCEPT ![i] = s[j], ![j] = s[i]]

\* an inner loop that also exchanges candidates of equal weight
RECURSIVE SortInnerTies(_, _, _)
SortInnerTies(s, i, j) ==
    IF j > Len(s) THEN s
    ELSE SortInnerTies(IF s[j].weight >= s[i].weight THEN Swap(s, i, j) ELSE s,
                       i, j + 1)

\* SortByWeight, inner loop: j runs from i+1 to the end, exchanging
\* positions i and j whenever the weight at j is strictly greater
RECURSIVE SortInner(_, _, _)
SortInner(s, i, j) ==
    IF j > Len(s) THEN s
    ELSE SortInner(IF s[j].weight > s[i].weight THEN Swap(s, i, j) ELSE s,
                   i, j + 1)

RECURSIVE SortOuter(_, _)
SortOuter(s, i) ==
    IF i >= Len(s) THEN s ELSE SortOuter(SortInner(s, i, i + 1), i + 1)

\* a sort that leaves the list as it is
SortByWeightNoop(restaurants) == restaurants

\* SortByWeight: exchange sort, highest weight first
SortByWeight(restaurants) == SortOuter(restaurants, 1)

(* ------------------------------- values -------------------------------- *)
\* restaurant names (a plain name, and one that contains the keyword 火锅)
NameA == <<"A">>
NameB == <<"B">>
NameC == <<"C", "huo", "guo">>
NameD == <<"D">>

\* provider type strings, "大类;中类;小类"
TypeSichuan == <<"can", "yin", ";", "zhong", "can", "ting", ";", "chuan", "cai">>
TypeHotpot  == <<"can", "yin", ";", "zhong", "can", "ting", ";", "huo", "guo">>
TypeFast    == <<"can", "yin", ";", "kuai", "can">>
TypeCanton  == <<"can", "yin", ";", "zhong", "can", "ting", ";", "yue", "cai">>

\* tools.Restaurant as SearchNearby builds it: Weight is the zero value
Restaurant(n, t) == [name |-> n, type |-> t, weight |-> 0]

Pool == { Restaurant(NameA, TypeSichuan), Restaurant(NameB, TypeHotpot),
          Restaurant(NameC, TypeFast), Restaurant(NameD, TypeCanton) }

\* the answers of the places provider: lists of different candidates
CandLists ==
    UNION { { s \in [1..n -> Pool] : \A i, j \in 1..n : s[i] = s[j] => i = j } :
            n \in 0..MaxCands }

\* preference tables (restaurants.yaml), or no table at all (pref = nil)
Map0 == [x \in {} |-> 0]

PrefNone  == [present |-> FALSE, restaurantMap |-> Map0, categoryMap |-> Map0]
PrefBoost == [present |-> TRUE,
              restaurantMap |-> [x \in {NameB} |-> 150],
              categoryMap   |-> Map0]
PrefBan   == [present |-> TRUE,
              restaurantMap |-> [x \in {NameA, NameC} |-> IF x = NameA THEN 0 ELSE 60],
              categoryMap   |-> [x \in {<<"chuan", "cai">>} |-> 120]]

PrefScale == [present |-> TRUE,
              restaurantMap |-> [x \in {NameA} |-> 90],
              categoryMap   |-> [x \in {<<"chuan", "cai">>} |-> 33]]

Prefs == {PrefBoost, PrefBan, PrefScale}

\* preferences with two category keys that one type string can contain
PrefOverlap == [present |-> TRUE,
                restaurantMap |-> Map0,
                categoryMap   |-> [x \in {<<"zhong", "can", "ting">>,
                                          <<"chuan", "cai">>} |->
                                      IF x = <<"chuan", "cai">> THEN 160 ELSE 80]]

\* what the weather provider answers for the city: a reading (Text, Temp as
\* the provider's strings), or nothing when all three attempts fail
WeatherDown == [ok |-> FALSE, text |-> "", temp |-> <<>>]
WeatherCold == [ok |-> TRUE, text |-> "snow", temp |-> <<"3">>]

\* local hours at which something happens, and UTC offsets of the host
Hours   == {3, 20}
Offsets == {-8, 8}

\* the chat turns
SayNoHotpot     == <<"bu", "xiang3", "chi", "huo", "guo">>
SayOk           == <<"hao3", "de">>
SaySure         == <<"que", "ding">>
SaySecond       == <<"di", "er", "ge">>
SayRecommend    == <<"tui", "jian">>
SayHello        == <<"ni", "hao3">>
SayNoHotpotRec  == <<"bu", "yao", "huo", "guo", "tui", "jian">>
SayNoHotpotThis == <<"bu", "chi", "huo", "guo", "jiu", "zhe", "ge">>

Inputs == { SayNoHotpot, SayOk, SaySure, SaySecond, SayRecommend, SayHello,
            SayNoHotpotRec, SayNoHotpotThis }

\* the chat turns that pick a candidate by position
SayFirst      == <<"di", "yi", "ge">>
SayThird      == <<"di", "san", "ge">>
SayOkSecond   == <<"hao3", "de", "di", "er", "ge">>
SayThirdB     == <<"di", "san", "ge", "B">>
SaySureFourth == <<"que", "ding", "di", "si", "ge">>
SayOkFourth   == <<"hao3", "de", "di", "si", "ge">>

Selections == { SayFirst, SaySecond, SayThird, SayOkSecond, SayThirdB,
                SaySureFourth, SayOkFourth }

(* ------------------------------- state --------------------------------- *)
VARIABLES
    messages,         \* MealAgent.messages: the roles of the messages
    tempExclude,      \* MealAgent.tempExclude
    lastRestaurants,  \* MealAgent.lastRestaurants
    records,          \* History.Records
    disk,             \* the records in history.json
    pref,             \* MealAgent.pref
    blacklist,        \* Config.Blacklist
    cfgTempExclude,   \* Config.TempExclude
    nearby,           \* what the places provider answers for the location
    weather,          \* what the weather provider answers for the city
    now,              \* the local wall clock: [day, hour, minute]
    tz,               \* the UTC offset of the local zone, in hours
    stopCh,           \* Scheduler.stopCh: TRUE once closed
    notifyCh,         \* Scheduler.notifyCh: the notifications not yet read
    ticker,           \* ticker.C of Scheduler.run: TRUE while a tick waits
    lastDate,         \* lastDate of Scheduler.run
    schedPc,          \* where Scheduler.run is: off, select, send, done
    pending,          \* the notification Scheduler.run is about to send
    consumer,         \* TRUE when some task reads Notifications()
    weatherCall,      \* the running call of WeatherClient.GetWeather, if any
    last              \* what the last operation did (observation only)

vars == << messages, tempExclude, lastRestaurants, records, disk, pref,
           blacklist, cfgTempExclude, nearby, weather, now, tz, stopCh,
           notifyCh, ticker, lastDate, schedPc, pending, consumer,
           weatherCall, last >>

config == << pref, blacklist, cfgTempExclude, nearby, weather, tz >>

sched == << stopCh, notifyCh, ticker, lastDate, schedPc, pending, consumer >>

\* what an operation that did nothing observable leaves in last
Quiet(o, inp) ==
    [op |-> o, input |-> inp, handler |-> "none", reply |-> "none",
     err |-> FALSE, search |-> "none", llm |-> FALSE, appended |-> FALSE,
     weighted |-> <<>>, ranked |-> <<>>,
     occasion |-> "none", reading |-> "none", advisory |-> "none",
     unsaved |-> 0, summary |-> <<>>, penalty |-> 0, table |-> <<>>]

(* --------------------------- history ledger ---------------------------- *)
\* int(today.Sub(recordDate).Hours() / 24): recordDate is the record's date
\* parsed as midnight UTC, today is the local instant
daysDiff(date) == TruncDiv(24 * (now.day - date) + now.hour - tz, 24)

\* the switch of GetAllPenalties; no case matches a negative difference
stepPenalty(d) ==
    CASE d = 0 -> -80
      [] d = 1 -> -50
      [] d = 2 -> -30
      [] d = 3 -> -15
      [] OTHER -> 0

MapPut(m, k, v) == [x \in (DOMAIN m) \cup {k} |-> IF x = k THEN v ELSE m[x]]

RECURSIVE PenaltyLoop(_, _, _)
PenaltyLoop(recs, k, penalties) ==
    IF k > Len(recs) THEN penalties
    ELSE LET r == recs[k]
             d == daysDiff(r.date)
             p == stepPenalty(d)
         IN  IF d > 3 THEN PenaltyLoop(recs, k + 1, penalties)
             ELSE IF r.restaurant \notin DOMAIN penalties
                     \/ p < penalties[r.restaurant]
                  THEN PenaltyLoop(recs, k + 1, MapPut(penalties, r.restaurant, p))
                  ELSE PenaltyLoop(recs, k + 1, penalties)

\* GetAllPenalties: name -> the most negative penalty of its recent records
GetAllPenalties == PenaltyLoop(records, 1, Map0)

\* GetRecentPenalty: the penalty of the first record of the restaurant, in
\* insertion order, that is 0 to 3 days old; 0 when there is none
RECURSIVE RecentLoop(_, _)
RecentLoop(restaurantName, k) ==
    IF k > Len(records) THEN 0
    ELSE LET r == records[k]
             d == daysDiff(r.date)
         IN  IF r.restaurant = restaurantName /\ d \in 0..3
             THEN stepPenalty(d)
             ELSE RecentLoop(restaurantName, k + 1)

GetRecentPenalty(restaurantName) == RecentLoop(restaurantName, 1)

\* the occasion of the current local hour
mealTypeNow == IF now.hour >= 15 THEN "dinner" ELSE "lunch"

MealRecord(name, category) ==
    [date |-> now.day, mealType |-> mealTypeNow,
     restaurant |-> name, category |-> category]

\* a query that reads the records of the file
GetRecentFromDisk(days) ==
    LET recent(r) == r.date >= now.day - days IN SelectSeq(disk, recent)

\* History.GetRecent: the records dated at or after the cutoff, in order
GetRecent(days) ==
    LET recent(r) == r.date >= now.day - days IN SelectSeq(records, recent)

\* History.Summary: one line per record of the last 7 days (date, occasion,
\* name, and the category when there is one), none for the sentinel
Summary == GetRecent(7)

(* ----------------------------- preferences ----------------------------- *)
\* GetRestaurantWeight: the exact-name entry, 100 when there is none
GetRestaurantWeight(p, name) ==
    IF name \in DOMAIN p.restaurantMap THEN p.restaurantMap[name] ELSE 100

\* GetCategoryWeight: the weight of a key that the type string contains;
\* the map is iterated in no fixed order, so with several matching keys any
\* of their weights may be returned
GetCategoryWeight(p, typeStr) ==
    LET hits == { c \in DOMAIN p.categoryMap : Contains(typeStr, c) }
    IN  IF hits = {} THEN {100} ELSE { p.categoryMap[c] : c \in hits }

\* a weight whose recency penalty is scaled with the category as well
calcWeightPenaltyScaled(p, r, catWeight, penalties) ==
    LET prefWeight == GetRestaurantWeight(p, r.name)
        pen == IF r.name \in DOMAIN penalties THEN penalties[r.name] ELSE 0
        w1  == IF p.present THEN prefWeight + pen ELSE 100 + pen
    IN  IF p.present /\ catWeight # 100 THEN TruncDiv(w1 * catWeight, 100) ELSE w1

\* GetRecommendation, step 5: the weight of one candidate
calcWeight(p, r, catWeight, penalties) ==
    LET prefWeight == GetRestaurantWeight(p, r.name)
        w1 == IF prefWeight = 0 THEN 0 ELSE prefWeight
        w2 == IF catWeight # 100 THEN TruncDiv(w1 * catWeight, 100) ELSE w1
        w3 == IF p.present THEN w2 ELSE 100
    IN  IF r.name \in DOMAIN penalties THEN w3 + penalties[r.name] ELSE w3

(* --------------------------- intent matching --------------------------- *)
\* Chat, first test: does the turn ask to exclude something
exclusionIntent(inp) == ContainsAny(inp, exclusionTriggers)

\* a test that misses the ordinal confirmations
isConfirmationNoOrdinal(inp) == ContainsAny(inp, SubSeq(confirmKeywords, 1, 6))

\* isConfirmation
isConfirmation(inp) == ContainsAny(inp, confirmKeywords)

\* Chat, third test: does the turn ask for a recommendation
recommendIntent(inp) == ContainsAny(inp, recommendKeywords)

\* containsExclude
containsExclude(te, kw) == \E k \in 1..Len(te) : te[k] = kw

\* what the keyword tests find in each chat turn (computed once per turn text)
inputFacts ==
    [inp \in Inputs \cup Selections |->
        [exclusion    |-> exclusionIntent(inp),
         confirmation |-> isConfirmation(inp),
         recommend    |-> recommendIntent(inp),
         mentions     |-> { k \in 1..Len(keywords) : Contains(inp, keywords[k]) },
         ordinals     |-> { k \in 1..Len(orderPatterns) :
                              Contains(inp, orderPatterns[k].pattern) },
         bare         |-> ContainsAny(inp, defaultPhrases)]]

\* parseExclusion: append every vocabulary keyword the turn contains and
\* the list does not hold yet, in vocabulary order
RECURSIVE parseLoop(_, _, _)
parseLoop(te, inp, k) ==
    IF k > Len(keywords) THEN te
    ELSE IF k \in inputFacts[inp].mentions /\ ~containsExclude(te, keywords[k])
         THEN parseLoop(Append(te, keywords[k]), inp, k + 1)
         ELSE parseLoop(te, inp, k + 1)

parseExclusion(te, inp) == parseLoop(te, inp, 1)

\* a selection that looks for a candidate's name before the ordinals
extractSelectionNameFirst(inp) ==
    LET n == Len(lastRestaurants)
        ordHits  == { k \in inputFacts[inp].ordinals : orderPatterns[k].index < n }
        nameHits == { i \in 1..n : Contains(inp, lastRestaurants[i].name) }
        Min(S)   == CHOOSE x \in S : \A y \in S : x <= y
    IN  IF n = 0 THEN 0
        ELSE IF nameHits # {} THEN Min(nameHits)
        ELSE IF ordHits # {} THEN orderPatterns[Min(ordHits)].index + 1
        ELSE IF n > 0 /\ inputFacts[inp].bare THEN 1
        ELSE 0

\* extractSelection: the 1-based position in lastRestaurants of the selected
\* candidate, 0 when nothing is selected (nil)
extractSelection(inp) ==
    LET n == Len(lastRestaurants)
        ordHits  == { k \in inputFacts[inp].ordinals : orderPatterns[k].index < n }
        nameHits == { i \in 1..n : Contains(inp, lastRestaurants[i].name) }
        Min(S)   == CHOOSE x \in S : \A y \in S : x <= y
    IN  IF n = 0 THEN 0
        ELSE IF ordHits # {} THEN orderPatterns[Min(ordHits)].index + 1
        ELSE IF nameHits # {} THEN Min(nameHits)
        ELSE IF n > 0 /\ inputFacts[inp].bare THEN 1
        ELSE 0

(* ------------------------------- weather ------------------------------- *)
\* fmt.Sscanf(s, "%d", &temp): the decimal digits at the start of s, 0 when
\* there is none
Digit(c) ==
    CASE c = "0" -> 0 [] c = "1" -> 1 [] c = "2" -> 2 [] c = "3" -> 3
      [] c = "4" -> 4 [] c = "5" -> 5 [] c = "6" -> 6 [] c = "7" -> 7
      [] c = "8" -> 8 [] c = "9" -> 9 [] OTHER -> -1

RECURSIVE ScanDigits(_, _, _)
ScanDigits(s, k, acc) ==
    IF k > Len(s) \/ Digit(s[k]) < 0 THEN acc
    ELSE ScanDigits(s, k + 1, 10 * acc + Digit(s[k]))

\* the scan accepts a sign before the digits
ScanInt(s) ==
    IF Len(s) > 0 /\ s[1] = "-" THEN 0 - ScanDigits(s, 2, 0)
    ELSE IF Len(s) > 0 /\ s[1] = "+" THEN ScanDigits(s, 2, 0)
    ELSE ScanDigits(s, 1, 0)

\* the reading GetRecommendation puts in place of a failed lookup
Placeholder == [text |-> "unknown", temp |-> <<"2", "0">>]

\* a pipeline that goes on with the empty reading after a failed lookup
weatherInfoNoPlaceholder(w) == [text |-> w.text, temp |-> w.temp]

\* GetRecommendation, step 1: the reading, or the placeholder on failure
weatherInfo(w) ==
    IF w.ok THEN [text |-> w.text, temp |-> w.temp] ELSE Placeholder

\* an advisory whose brackets exclude their upper bounds
SuggestFoodTypeExclusive(w) ==
    LET temp == ScanInt(w.temp) IN
    IF temp < 5 THEN "cold"
    ELSE IF temp < 15 THEN "cool"
    ELSE IF temp < 25 THEN "comfortable"
    ELSE IF temp < 32 THEN "hot"
    ELSE "scorching"

\* WeatherInfo.SuggestFoodType: the advisory bracket of the temperature
SuggestFoodType(w) ==
    LET temp == ScanInt(w.temp) IN
    IF temp <= 5 THEN "cold"
    ELSE IF temp <= 15 THEN "cool"
    ELSE IF temp <= 25 THEN "comfortable"
    ELSE IF temp <= 32 THEN "hot"
    ELSE "scorching"

(* ------------------------------ operations ----------------------------- *)
\* the category weight GetCategoryWeight may return for each candidate
CatChoices(rs) ==
    { f \in [1..Len(rs) -> UNION { GetCategoryWeight(pref, rs[i].type) : i \in 1..Len(rs) }] :
        \A i \in 1..Len(rs) : f[i] \in GetCategoryWeight(pref, rs[i].type) }

\* the messages after the prompt has been added: the system message is
\* seeded only into an empty list
withPrompt(msgs) ==
    (IF Len(msgs) = 0 THEN <<"system">> ELSE msgs) \o <<"user">>

\* a failed search that forgets the candidates on offer
searchFailedClears(q, msgs, lrs) ==
    /\ last' = [q EXCEPT !.err = TRUE, !.search = "failed"]
    /\ messages' = msgs
    /\ lastRestaurants' = <<>>

\* GetRecommendation, step 2 failing: the error is returned at once
searchFailed(q, msgs, lrs) ==
    /\ last' = [q EXCEPT !.err = TRUE, !.search = "failed"]
    /\ messages' = msgs
    /\ lastRestaurants' = lrs

\* the body of GetRecommendation for occasion mt, run with exclusion list
\* te, messages msgs, last-offered list lrs and Config.TempExclude cte
PipelineFrom(o, inp, te, msgs, lrs, mt, cte) ==
    LET info == weatherInfo(weather)
        q == [Quiet(o, inp) EXCEPT !.handler = "recommend", !.occasion = mt,
                                   !.reading = info,
                                   !.advisory = SuggestFoodType(info)] IN
    \E searchOk \in BOOLEAN, llmOk \in BOOLEAN :
      /\ tempExclude' = te
      /\ UNCHANGED << records, disk, now >>
      /\ IF ~searchOk
         THEN searchFailed(q, msgs, lrs)
         ELSE LET r1 == FilterByBlacklist(nearby, blacklist \o cte)
                  r2 == IF Len(te) > 0 THEN FilterByType(r1, te) ELSE r1
                  penalties == GetAllPenalties
              IN  \E cw \in CatChoices(r2) :
                    LET r3 == [i \in 1..Len(r2) |->
                                  [r2[i] EXCEPT !.weight =
                                      calcWeight(pref, r2[i], cw[i], penalties)]]
                        r4 == SortByWeight(FilterByWeight(r3))
                        q2 == [q EXCEPT !.search = "ok", !.weighted = r3,
                                        !.ranked = r4]
                    IN  IF Len(r4) = 0
                        THEN /\ last' = [q2 EXCEPT !.reply = "noEligible"]
                             /\ messages' = msgs
                             /\ lastRestaurants' = lrs
                        ELSE /\ lastRestaurants' = r4
                             /\ Len(withPrompt(msgs)) + 1 <= MaxMsgs
                             /\ IF llmOk
                                THEN /\ messages' = Append(withPrompt(msgs), "assistant")
                                     /\ last' = [q2 EXCEPT !.reply = "llm", !.llm = TRUE]
                                ELSE /\ messages' = withPrompt(msgs)
                                     /\ last' = [q2 EXCEPT !.err = TRUE, !.llm = TRUE]

\* GetRecommendation as the agent's own callers run it: on the agent's
\* messages and last-offered list, for the occasion of the hour
Pipeline(o, inp, te) ==
    PipelineFrom(o, inp, te, messages, lastRestaurants, mealTypeNow,
                 cfgTempExclude)

\* an Add whose save writes the new record behind those already in the file
AddSavesNewOnly(q, record) ==
    \E saveOk \in BOOLEAN :
      /\ Len(records) < MaxRecords
      /\ records' = Append(records, record)
      /\ disk' = IF saveOk THEN Append(disk, record) ELSE disk
      /\ last' = [q EXCEPT !.appended = TRUE, !.err = ~saveOk,
                           !.reply = IF saveOk THEN "confirmed" ELSE "none",
                           !.unsaved = Len(records) - Len(disk)]

\* History.Add: append in memory, then save the whole list; the write may
\* fail (unsaved: the records the file lacked before the call)
Add(q, record) ==
    \E saveOk \in BOOLEAN :
      /\ Len(records) < MaxRecords
      /\ records' = Append(records, record)
      /\ disk' = IF saveOk THEN records' ELSE disk
      /\ last' = [q EXCEPT !.appended = TRUE, !.err = ~saveOk,
                           !.reply = IF saveOk THEN "confirmed" ELSE "none",
                           !.unsaved = Len(records) - Len(disk)]

\* confirmChoice, run with exclusion list te
confirmChoice(inp, te) ==
    LET sel == extractSelection(inp)
        q   == [Quiet("Chat", inp) EXCEPT !.handler = "confirm"]
    IN  /\ tempExclude' = te
        /\ UNCHANGED << messages, lastRestaurants, now >>
        /\ IF sel = 0
           THEN /\ last' = [q EXCEPT !.reply = "clarify"]
                /\ UNCHANGED << records, disk >>
           ELSE Add(q, MealRecord(lastRestaurants[sel].name,
                                  extractCategory(lastRestaurants[sel].type)))

\* Chat, last branch: forward the turn to the language model
forward(inp, te) ==
    LET q == [Quiet("Chat", inp) EXCEPT !.handler = "forward", !.llm = TRUE] IN
    \E llmOk \in BOOLEAN :
      /\ tempExclude' = te
      /\ Len(messages) + 2 <= MaxMsgs
      /\ UNCHANGED << lastRestaurants, records, disk, now >>
      /\ IF llmOk
         THEN /\ messages' = messages \o <<"user", "assistant">>
              /\ last' = [q EXCEPT !.reply = "llm"]
         ELSE /\ messages' = Append(messages, "user")
              /\ last' = [q EXCEPT !.err = TRUE]

\* MealAgent.Chat: parseExclusion does not end the turn; the turn then goes
\* to the first of confirmChoice, GetRecommendation, language model
ChatTurn(inp) ==
    LET te == IF inputFacts[inp].exclusion
              THEN parseExclusion(tempExclude, inp) ELSE tempExclude
    IN  /\ UNCHANGED << config, sched, weatherCall >>
        /\ IF inputFacts[inp].confirmation THEN confirmChoice(inp, te)
           ELSE IF inputFacts[inp].recommend THEN Pipeline("Chat", inp, te)
           ELSE forward(inp, te)

\* a turn of the session
Chat == \E inp \in Inputs : ChatTurn(inp)

\* a turn that picks a candidate by position
ChatSelect == \E inp \in Selections : ChatTurn(inp)

\* MealAgent.GetRecommendation
GetRecommendation ==
    /\ UNCHANGED << config, sched, weatherCall >>
    /\ Pipeline("GetRecommendation", <<>>, tempExclude)

\* MealAgent.RecordMeal
RecordMeal ==
    \E name \in {NameA}, category \in {<<>>} :
      /\ Add(Quiet("RecordMeal", <<>>), MealRecord(name, category))
      /\ UNCHANGED << messages, tempExclude, lastRestaurants, now >>
      /\ UNCHANGED << config, sched, weatherCall >>

\* the two penalty queries of the ledger, asked for one restaurant
QueryPenalty ==
    /\ \E name \in {NameA, NameB} :
         last' = [Quiet("GetRecentPenalty", name) EXCEPT
                     !.penalty = GetRecentPenalty(name),
                     !.table = GetAllPenalties]
    /\ UNCHANGED << messages, tempExclude, lastRestaurants, records, disk, now >>
    /\ UNCHANGED << config, sched, weatherCall >>

\* MealAgent.GetHistorySummary: reads the ledger, changes nothing
GetHistorySummary ==
    /\ last' = [Quiet("GetHistorySummary", <<>>) EXCEPT
                    !.reply = IF Summary = <<>> THEN "noHistory" ELSE "summary",
                    !.summary = Summary]
    /\ UNCHANGED << messages, tempExclude, lastRestaurants, records, disk, now >>
    /\ UNCHANGED << config, sched, weatherCall >>

\* a reset that empties the ledger as well
ResetClearsLedger ==
    /\ messages' = <<>>
    /\ tempExclude' = <<>>
    /\ lastRestaurants' = <<>>
    /\ records' = <<>>
    /\ last' = Quiet("Reset", <<>>)
    /\ UNCHANGED << disk, now >>
    /\ UNCHANGED << config, sched, weatherCall >>

\* a reset that keeps the candidates on offer
ResetKeepsOffer ==
    /\ messages' = <<>>
    /\ tempExclude' = <<>>
    /\ last' = Quiet("Reset", <<>>)
    /\ UNCHANGED << lastRestaurants, records, disk, now >>
    /\ UNCHANGED << config, sched, weatherCall >>

\* MealAgent.Reset
Reset ==
    /\ messages' = <<>>
    /\ tempExclude' = <<>>
    /\ lastRestaurants' = <<>>
    /\ last' = Quiet("Reset", <<>>)
    /\ UNCHANGED << records, disk, now >>
    /\ UNCHANGED << config, sched, weatherCall >>

(* ---------------------------- weather client --------------------------- *)
Digits == <<"0", "1", "2", "3", "4", "5", "6", "7", "8", "9">>

\* two decimal digits of n, zero-padded
TwoDigits(n) == << Digits[(n \div 10) + 1], Digits[(n % 10) + 1] >>

\* the attempts of one GetWeather call
MaxRetry == 3

\* no call is running and none has run
NoCall == [pc |-> "idle", retry |-> 0, log |-> <<>>, ret |-> "none"]

\* the temperatures the provider reports
Temps == {-12, -1, 0, 3, 5, 6, 15, 16, 25, 26, 32, 33, 40}

\* the provider's string for an integer temperature
Itoa(t) ==
    IF t < 0 THEN <<"-">> \o (IF 0 - t < 10 THEN << Digits[1 - t] >>
                               ELSE TwoDigits(0 - t))
    ELSE IF t < 10 THEN << Digits[t + 1] >>
    ELSE TwoDigits(t)

\* the reading of the provider at temperature t
Reading(t) == [ok |-> TRUE, text |-> "reported", temp |-> Itoa(t)]

\* why one attempt fails: the city lookup, or the weather request
OnceErrors == {"city", "weather"}

\* one entry of the call's log: a sleep of secs seconds, or an attempt
Slept(secs) == [ev |-> "sleep", secs |-> secs, why |-> "none"]
Tried(ev, why) == [ev |-> ev, secs |-> 0, why |-> why]

\* WeatherClient.GetWeather is called
GetWeather ==
    /\ weatherCall.pc = "idle"
    /\ weatherCall' = [pc |-> "loop", retry |-> 0, log |-> <<>>, ret |-> "none"]
    /\ last' = Quiet("GetWeather", <<>>)
    /\ UNCHANGED << messages, tempExclude, lastRestaurants, records, disk, now >>
    /\ UNCHANGED << config, sched >>

\* a backoff that sleeps the same second before every retry
backoffFlat(retry) == 1

\* GetWeather, time.Sleep(time.Duration(retry) * time.Second)
backoff(retry) == retry

\* GetWeather, the sleep before a retry
GetWeatherSleep ==
    /\ weatherCall.pc = "loop"
    /\ weatherCall.retry < MaxRetry
    /\ weatherCall.retry > 0
    /\ weatherCall' = [weatherCall EXCEPT
                          !.pc = "once",
                          !.log = Append(@, Slept(backoff(weatherCall.retry)))]
    /\ last' = Quiet("GetWeatherSleep", <<>>)
    /\ UNCHANGED << messages, tempExclude, lastRestaurants, records, disk, now >>
    /\ UNCHANGED << config, sched >>

\* GetWeather, one getWeatherOnce: a reading ends the call, an error leads
\* to the next pass of the loop
getWeatherOnce ==
    /\ \/ weatherCall.pc = "once"
       \/ weatherCall.pc = "loop" /\ weatherCall.retry = 0
    /\ \/ \E t \in Temps :
            /\ weatherCall' = [weatherCall EXCEPT
                                  !.pc = "idle", !.ret = "reading",
                                  !.log = Append(@, Tried("ok", "none"))]
            /\ weather' = Reading(t)
       \/ \E e \in OnceErrors :
            /\ weatherCall' = [weatherCall EXCEPT
                                  !.pc = "loop", !.retry = @ + 1,
                                  !.log = Append(@, Tried("fail", e))]
            /\ weather' = weather
    /\ last' = Quiet("getWeatherOnce", <<>>)
    /\ UNCHANGED << messages, tempExclude, lastRestaurants, records, disk, now >>
    /\ UNCHANGED << pref, blacklist, cfgTempExclude, nearby, tz >>
    /\ UNCHANGED sched

\* GetWeather, after the loop: the error is returned
GetWeatherFail ==
    /\ weatherCall.pc = "loop"
    /\ weatherCall.retry >= MaxRetry
    /\ weatherCall' = [weatherCall EXCEPT !.pc = "idle", !.ret = "error"]
    /\ weather' = WeatherDown
    /\ last' = Quiet("GetWeatherFail", <<>>)
    /\ UNCHANGED << messages, tempExclude, lastRestaurants, records, disk, now >>
    /\ UNCHANGED << pref, blacklist, cfgTempExclude, nearby, tz >>
    /\ UNCHANGED sched

(* ------------------------------ scheduler ------------------------------ *)
\* the capacity of Scheduler.notifyCh
NotifyCap == 10

\* Config.Schedule: the two trigger times
lunchTime == <<"1", "1", ":", "0", "0">>
dinnerTime == <<"1", "7", ":", "0", "0">>

\* the clock formatted without zero padding
currentTimeUnpadded ==
    (IF now.hour < 10 THEN << Digits[now.hour + 1] >> ELSE TwoDigits(now.hour))
    \o <<":">> \o
    (IF now.minute < 10 THEN << Digits[now.minute + 1] >>
     ELSE TwoDigits(now.minute))

\* now.Format("15:04")
currentTime == TwoDigits(now.hour) \o <<":">> \o TwoDigits(now.minute)

\* the occasion Scheduler.run triggers at the current time, if any
dueMeal ==
    IF currentTime = lunchTime THEN "lunch"
    ELSE IF currentTime = dinnerTime THEN "dinner"
    ELSE "none"

\* the instants at which the clock is read
Instants ==
    { [day |-> 0, hour |-> 10, minute |-> 59],
      [day |-> 0, hour |-> 11, minute |-> 0],
      [day |-> 0, hour |-> 11, minute |-> 1],
      [day |-> 0, hour |-> 17, minute |-> 0],
      [day |-> 1, hour |-> 0, minute |-> 0],
      [day |-> 1, hour |-> 11, minute |-> 0] }

Later(t, u) ==
    \/ t.day > u.day
    \/ t.day = u.day /\ t.hour > u.hour
    \/ t.day = u.day /\ t.hour = u.hour /\ t.minute > u.minute

\* time passes: the clock reaches a later instant and the ticker, if it
\* runs, has a tick waiting
Tick ==
    /\ \E t \in Instants : Later(t, now) /\ now' = t
    /\ ticker' = (ticker \/ schedPc \in {"select", "send"})
    /\ last' = Quiet("Tick", <<>>)
    /\ UNCHANGED << messages, tempExclude, lastRestaurants, records, disk >>
    /\ UNCHANGED << config, weatherCall >>
    /\ UNCHANGED << stopCh, notifyCh, lastDate, schedPc, pending, consumer >>

\* Scheduler.Stop: close(s.stopCh)
Stop ==
    /\ schedPc # "off"
    /\ ~stopCh
    /\ stopCh' = TRUE
    /\ last' = Quiet("Stop", <<>>)
    /\ UNCHANGED << messages, tempExclude, lastRestaurants, records, disk, now >>
    /\ UNCHANGED << config, weatherCall >>
    /\ UNCHANGED << notifyCh, ticker, lastDate, schedPc, pending, consumer >>

\* Scheduler.run, case <-s.stopCh: return
SchedReturn ==
    /\ schedPc = "select"
    /\ stopCh
    /\ schedPc' = "done"
    /\ last' = Quiet("SchedReturn", <<>>)
    /\ UNCHANGED << messages, tempExclude, lastRestaurants, records, disk, now >>
    /\ UNCHANGED << config, weatherCall >>
    /\ UNCHANGED << stopCh, notifyCh, ticker, lastDate, pending, consumer >>

\* a ClearTempExclude that clears nothing
ClearTempExcludeNoop == cfgTempExclude

\* Config.ClearTempExclude: Config.TempExclude after the call
ClearTempExclude == <<>>

\* Scheduler.run, case <-ticker.C: the new-day reset, then the run that is
\* due, up to the send of its notification
SchedTick ==
    /\ schedPc = "select"
    /\ ticker
    /\ ticker' = FALSE
    /\ lastDate' = now.day
    /\ LET newDay == now.day # lastDate
           cte == IF newDay THEN ClearTempExclude ELSE cfgTempExclude
           o == IF newDay THEN "SchedTickNewDay" ELSE "SchedTick"
       IN  /\ cfgTempExclude' = cte
           /\ UNCHANGED << pref, blacklist, nearby, weather, tz >>
           /\ UNCHANGED << stopCh, notifyCh, consumer, weatherCall >>
           /\ IF dueMeal # "none"
              THEN /\ PipelineFrom(o, <<>>, <<>>, <<>>, <<>>, dueMeal, cte)
                   /\ pending' = IF last'.err THEN "error" ELSE "text"
                   /\ schedPc' = "send"
              ELSE /\ IF newDay
                      THEN /\ messages' = <<>>
                           /\ tempExclude' = <<>>
                           /\ lastRestaurants' = <<>>
                      ELSE UNCHANGED << messages, tempExclude, lastRestaurants >>
                   /\ last' = Quiet(o, <<>>)
                   /\ UNCHANGED << records, disk, now, pending, schedPc >>

\* Scheduler.triggerRecommendation, s.notifyCh <- ...: the send completes
\* when the channel has room
SchedSend ==
    /\ schedPc = "send"
    /\ Len(notifyCh) < NotifyCap
    /\ notifyCh' = Append(notifyCh, pending)
    /\ pending' = "none"
    /\ schedPc' = "select"
    /\ last' = Quiet("SchedSend", <<>>)
    /\ UNCHANGED << messages, tempExclude, lastRestaurants, records, disk, now >>
    /\ UNCHANGED << config, weatherCall >>
    /\ UNCHANGED << stopCh, ticker, lastDate, consumer >>

\* Scheduler.ManualTrigger: triggerRecommendation for the occasion of the
\* hour, run by the caller; the call returns once the channel has taken the
\* notification
ManualTrigger ==
    /\ Len(notifyCh) < NotifyCap
    /\ PipelineFrom("ManualTrigger", <<>>, <<>>, <<>>, <<>>, mealTypeNow,
                    cfgTempExclude)
    /\ notifyCh' = Append(notifyCh, IF last'.err THEN "error" ELSE "text")
    /\ UNCHANGED << config, weatherCall >>
    /\ UNCHANGED << stopCh, ticker, lastDate, schedPc, pending, consumer >>

\* the task that ranges over Notifications() receives one notification
Consume ==
    /\ consumer
    /\ Len(notifyCh) > 0
    /\ notifyCh' = Tail(notifyCh)
    /\ last' = Quiet("Consume", <<>>)
    /\ UNCHANGED << messages, tempExclude, lastRestaurants, records, disk, now >>
    /\ UNCHANGED << config, weatherCall >>
    /\ UNCHANGED << stopCh, ticker, lastDate, schedPc, pending, consumer >>

(* ---------------------------- specifications --------------------------- *)
\* the ledger a started agent has loaded from history.json
Loaded == << [date |-> -1, mealType |-> "lunch", restaurant |-> NameA,
              category |-> <<>>] >>

\* no scheduler was created
SchedulerOff ==
    /\ stopCh = FALSE
    /\ notifyCh = <<>>
    /\ ticker = FALSE
    /\ lastDate = 0
    /\ schedPc = "off"
    /\ pending = "none"
    /\ consumer = FALSE

\* the session: a started agent in one of a few surroundings
SessionWorlds ==
    { [pref |-> PrefBoost, hour |-> 20, weather |-> WeatherDown,
       nearby |-> << Restaurant(NameA, TypeSichuan), Restaurant(NameC, TypeFast),
                     Restaurant(NameB, TypeHotpot) >>],
      [pref |-> PrefBan, hour |-> 3, weather |-> WeatherCold,
       nearby |-> << Restaurant(NameA, TypeSichuan),
                     Restaurant(NameB, TypeHotpot) >>] }

Init ==
    /\ messages = <<>>
    /\ tempExclude = <<>>
    /\ lastRestaurants = <<>>
    /\ records = Loaded
    /\ disk = records
    /\ \E w \in SessionWorlds : /\ pref = w.pref
                                /\ nearby = w.nearby
                                /\ weather = w.weather
                                /\ now = [day |-> 0, hour |-> w.hour, minute |-> 0]
    /\ blacklist = <<>>
    /\ cfgTempExclude = <<>>
    /\ tz = 8
    /\ SchedulerOff
    /\ weatherCall = NoCall
    /\ last = Quiet("init", <<>>)

Next == Chat \/ GetRecommendation \/ RecordMeal \/ Reset \/ GetHistorySummary

Spec == Init /\ [][Next]_vars

\* a ledger whose one record is older than a week
Stale == << [date |-> -8, mealType |-> "dinner", restaurant |-> NameB,
             category |-> <<"huo", "guo">>] >>

\* the ledger: the same operations on a first start, with no history file,
\* or on a start after more than a week
InitLedger ==
    /\ messages = <<>>
    /\ tempExclude = <<>>
    /\ lastRestaurants = <<>>
    /\ records \in {<<>>, Stale}
    /\ disk = records
    /\ pref = PrefBoost
    /\ nearby = << Restaurant(NameB, TypeHotpot) >>
    /\ weather = WeatherCold
    /\ blacklist = <<>>
    /\ cfgTempExclude = <<>>
    /\ now = [day |-> 0, hour |-> 20, minute |-> 0]
    /\ tz = 8
    /\ SchedulerOff
    /\ weatherCall = NoCall
    /\ last = Quiet("init", <<>>)

SpecLedger == InitLedger /\ [][Next]_vars

\* the ranking: every provider answer, configuration and clock, with the
\* loaded ledger, before any exclusion or after the turn "不要火锅推荐" whose
\* search failed
Ledgers == { Loaded }

\* config.yaml blacklists, with the exclusion list the agent holds and the
\* answer of the weather provider
Blacklists ==
    { [static |-> <<>>,      temp |-> <<>>,      exclude |-> <<>>,
       weather |-> WeatherDown],
      [static |-> <<NameD>>, temp |-> <<>>,      exclude |-> <<>>,
       weather |-> WeatherCold],
      [static |-> <<>>,      temp |-> <<>>,      exclude |-> << <<"huo", "guo">> >>,
       weather |-> WeatherCold],
      [static |-> <<>>,      temp |-> <<NameD>>, exclude |-> << <<"huo", "guo">> >>,
       weather |-> WeatherDown] }

\* the clocks of the ranking: an evening in either zone, and the small
\* hours east of Greenwich
Clocks == { c \in [hour : Hours, tz : Offsets] : c.hour = 20 \/ c.tz = 8 }

InitRank ==
    /\ messages = <<>>
    /\ lastRestaurants = <<>>
    /\ records \in Ledgers
    /\ disk = records
    /\ pref \in Prefs
    /\ nearby \in CandLists
    /\ \E b \in Blacklists : /\ blacklist = b.static
                             /\ cfgTempExclude = b.temp
                             /\ tempExclude = b.exclude
                             /\ weather = b.weather
    /\ \E c \in Clocks : now = [day |-> 0, hour |-> c.hour, minute |-> 0] /\ tz = c.tz
    /\ SchedulerOff
    /\ weatherCall = NoCall
    /\ last = Quiet("init", <<>>)

NextRank == GetRecommendation \/ RecordMeal

SpecRank == InitRank /\ [][NextRank]_vars

\* the daemon: a started scheduler on a started agent; the channel holds
\* nothing, or the notifications of ten runs nobody has read
Unread == [i \in 1..NotifyCap |-> "text"]

InitSched ==
    /\ messages = <<>>
    /\ tempExclude = <<>>
    /\ lastRestaurants = <<>>
    /\ records = Loaded
    /\ disk = records
    /\ pref = PrefBoost
    /\ nearby = << Restaurant(NameA, TypeSichuan), Restaurant(NameC, TypeFast) >>
    /\ weather = WeatherDown
    /\ blacklist = <<>>
    /\ cfgTempExclude = <<NameC>>
    /\ now = [day |-> 0, hour |-> 10, minute |-> 59]
    /\ tz = 8
    /\ stopCh = FALSE
    /\ notifyCh \in {<<>>, Unread}
    /\ ticker = FALSE
    /\ lastDate = now.day
    /\ schedPc = "select"
    /\ pending = "none"
    /\ consumer \in BOOLEAN
    /\ weatherCall = NoCall
    /\ last = Quiet("init", <<>>)

NextSched == Tick \/ Stop \/ SchedReturn \/ SchedTick \/ SchedSend \/ Consume

\* a task that can take a step is eventually run
SpecSched ==
    /\ InitSched
    /\ [][NextSched]_vars
    /\ WF_vars(SchedReturn)
    /\ WF_vars(SchedTick)
    /\ WF_vars(SchedSend)
    /\ WF_vars(Consume)

\* the weather client: lookups of a started agent, each followed by any
\* number of recommendation requests that use its outcome
InitWeather ==
    /\ messages = <<>>
    /\ tempExclude = <<>>
    /\ lastRestaurants = <<>>
    /\ records = Loaded
    /\ disk = records
    /\ pref = PrefBoost
    /\ nearby = << Restaurant(NameB, TypeHotpot) >>
    /\ weather = WeatherDown
    /\ blacklist = <<>>
    /\ cfgTempExclude = <<>>
    /\ now = [day |-> 0, hour |-> 20, minute |-> 0]
    /\ tz = 8
    /\ SchedulerOff
    /\ weatherCall = [NoCall EXCEPT !.pc = "loop"]
    /\ last = Quiet("init", <<>>)

\* the rest of GetRecommendation, once GetWeather has returned
Recommend == weatherCall.pc = "idle" /\ GetRecommendation

NextWeather ==
    GetWeather \/ GetWeatherSleep \/ getWeatherOnce \/ GetWeatherFail \/ Recommend

\* a call that can take a step does take it
SpecWeather ==
    /\ InitWeather
    /\ [][NextWeather]_vars
    /\ WF_vars(GetWeatherSleep)
    /\ WF_vars(getWeatherOnce)
    /\ WF_vars(GetWeatherFail)

\* the selection: one, two or three candidates are found nearby, and the
\* user picks among those on offer by position
InitSelect ==
    /\ messages = <<>>
    /\ tempExclude = <<>>
    /\ lastRestaurants = <<>>
    /\ records = Loaded
    /\ disk = records
    /\ pref = PrefBoost
    /\ nearby \in { << Restaurant(NameA, TypeSichuan) >>,
                    << Restaurant(NameA, TypeSichuan),
                       Restaurant(NameB, TypeHotpot) >>,
                    << Restaurant(NameA, TypeSichuan), Restaurant(NameC, TypeFast),
                       Restaurant(NameB, TypeHotpot) >> }
    /\ weather = WeatherDown
    /\ blacklist = <<>>
    /\ cfgTempExclude = <<>>
    /\ now = [day |-> 0, hour |-> 20, minute |-> 0]
    /\ tz = 8
    /\ SchedulerOff
    /\ weatherCall = NoCall
    /\ last = Quiet("init", <<>>)

NextSelect == GetRecommendation \/ ChatSelect

SpecSelect == InitSelect /\ [][NextSelect]_vars

\* the penalties: any history file of up to MaxRecords meals at two
\* restaurants over the last days, read at each clock
PastMeals ==
    { [date |-> d, mealType |-> "lunch", restaurant |-> n, category |-> <<>>] :
        d \in {-4, -2, -1, 0}, n \in {NameA, NameB} }

PenaltyLedgers ==
    UNION { [1..k -> PastMeals] : k \in 0..MaxRecords }

InitPenalty ==
    /\ messages = <<>>
    /\ tempExclude = <<>>
    /\ lastRestaurants = <<>>
    /\ records \in PenaltyLedgers
    /\ disk = records
    /\ pref = PrefNone
    /\ nearby = <<>>
    /\ weather = WeatherDown
    /\ blacklist = <<>>
    /\ cfgTempExclude = <<>>
    /\ \E c \in Clocks : now = [day |-> 0, hour |-> c.hour, minute |-> 0] /\ tz = c.tz
    /\ SchedulerOff
    /\ weatherCall = NoCall
    /\ last = Quiet("init", <<>>)

NextPenalty == QueryPenalty \/ RecordMeal

SpecPenalty == InitPenalty /\ [][NextPenalty]_vars

\* the repeated run: a scheduler that is triggered by hand again and again,
\* with nothing else changing the candidates, the preferences, the ledger,
\* the clock or the exclusions
InitTwice ==
    /\ messages = <<>>
    /\ tempExclude = <<>>
    /\ lastRestaurants = <<>>
    /\ records = Loaded
    /\ disk = records
    /\ pref = PrefOverlap
    /\ nearby = << Restaurant(NameA, TypeSichuan), Restaurant(NameC, TypeFast),
                   Restaurant(NameB, TypeHotpot) >>
    /\ weather = WeatherDown
    /\ blacklist = <<>>
    /\ cfgTempExclude = <<>>
    /\ now = [day |-> 0, hour |-> 20, minute |-> 0]
    /\ tz = 8
    /\ stopCh = FALSE
    /\ notifyCh = <<>>
    /\ ticker = FALSE
    /\ lastDate = now.day
    /\ schedPc = "off"
    /\ pending = "none"
    /\ consumer = TRUE
    /\ weatherCall = NoCall
    /\ last = Quiet("init", <<>>)

NextTwice == ManualTrigger \/ Consume

SpecTwice == InitTwice /\ [][NextTwice]_vars

(* ------------------------------ properties ----------------------------- *)
\* the candidates of s in descending weight, equal weights in the order of s
RECURSIVE StableRank(_, _)
StableRank(s, ws) ==
    IF ws = {} THEN <<>>
    ELSE LET m == CHOOSE x \in ws : \A y \in ws : y <= x
             top(r) == r.weight = m
         IN  SelectSeq(s, top) \o StableRank(s, ws \ {m})

Positive(r) == r.weight > 0

WeightsOf(s) == { s[i].weight : i \in 1..Len(s) }

Count(s, r) == Cardinality({ i \in 1..Len(s) : s[i] = r })

Ranked == last.handler = "recommend" /\ last.search = "ok"

\* C1: ranking is stable under ties: the ranked output is the list of the
\* eligible candidates by descending weight in which candidates of equal
\* weight keep the relative order they had in the input
C1_StableUnderTies ==
    Ranked =>
        LET elig == SelectSeq(last.weighted, Positive)
        IN  last.ranked = StableRank(elig, WeightsOf(elig))

\* C2: a candidate whose name has an exact preference entry of weight 0 gets
\* the computed weight 0, whatever its category and its recency penalty
C2_BannedIsZero ==
    Ranked =>
        \A i \in 1..Len(last.weighted) :
            LET r == last.weighted[i] IN
            (pref.present /\ r.name \in DOMAIN pref.restaurantMap
               /\ pref.restaurantMap[r.name] = 0) => r.weight = 0

\* does text t contain keyword K
Mentions(t, K) == Contains(t, K)

Bare(inp) ==
    /\ ContainsAny(inp, confirmKeywords)
    /\ \A k \in 1..Len(orderPatterns) : ~Contains(inp, orderPatterns[k].pattern)
    /\ \A i \in 1..Len(lastRestaurants) : ~Contains(inp, lastRestaurants[i].name)

\* C5: with two or more candidates on offer a bare confirmation resolves
\* nothing: the reply is the clarification request and nothing is recorded
C5_BareNeedsSingleOffer ==
    (last.op = "Chat" /\ Bare(last.input) /\ Len(lastRestaurants) >= 2) =>
        last.reply = "clarify" /\ ~last.appended

\* C6: with exactly one candidate on offer a bare confirmation records that
\* candidate, dated today with the occasion of the hour, and confirms (the
\* reply is looked at only when the history file could be written)
C6_SingleOfferRecorded ==
    (last.op = "Chat" /\ Bare(last.input) /\ Len(lastRestaurants) = 1) =>
        /\ last.appended
        /\ ~last.err => last.reply = "confirmed"
        /\ records # <<>>
        /\ records[Len(records)].restaurant = lastRestaurants[1].name
        /\ records[Len(records)].date = now.day
        /\ records[Len(records)].mealType = (IF now.hour < 15 THEN "lunch" ELSE "dinner")

EatenToday(name) ==
    \E k \in 1..Len(records) :
        records[k].restaurant = name /\ records[k].date = now.day

\* C7: a restaurant recorded as eaten today, of base weight 100 and without
\* preference, is ranked with weight 20 (penalty -80) for the rest of the day
C7_EatenTodayIs20 ==
    Ranked =>
        \A i \in 1..Len(last.weighted) :
            LET r == last.weighted[i] IN
            (EatenToday(r.name) /\ r.name \notin DOMAIN pref.restaurantMap
               /\ GetCategoryWeight(pref, r.type) = {100}) => r.weight = 20

\* the penalty of a record that is d calendar days old
AgePenalty(d) ==
    CASE d = 0 -> -80 [] d = 1 -> -50 [] d = 2 -> -30 [] d = 3 -> -15

\* C8: the penalty table maps each restaurant to the most negative penalty
\* among its records of the last 3 days, by age in days, and has nothing for
\* a restaurant without such a record
C8_PenaltyByAge ==
    Ranked =>
        \A k \in 1..Len(records) :
            LET name == records[k].restaurant
                ages == { now.day - records[j].date :
                            j \in { x \in 1..Len(records) : records[x].restaurant = name } }
                recent == { d \in ages : d >= 0 /\ d <= 3 }
            IN  IF recent = {} THEN name \notin DOMAIN GetAllPenalties
                ELSE /\ name \in DOMAIN GetAllPenalties
                     /\ \E d \in recent : GetAllPenalties[name] = AgePenalty(d)
                     /\ \A d \in recent : GetAllPenalties[name] <= AgePenalty(d)

\* C9: when no candidate of the provider's answer is left with a weight above
\* 0, the request answers with the fixed message, without error, without the
\* language model, and leaves the messages as they were
C9_NoEligibleMessage ==
    [][ (last'.handler = "recommend" /\ last'.search = "ok"
           /\ \A i \in 1..Len(last'.weighted) : last'.weighted[i].weight <= 0)
        => (/\ last'.reply = "noEligible" /\ ~last'.err /\ ~last'.llm
            /\ messages' = messages) ]_vars

\* the provider found candidates, none is eligible, and a conversation is
\* under way
C9_Witness ==
    /\ Ranked /\ last.reply = "noEligible"
    /\ nearby # <<>> /\ messages # <<>>

\* the candidate passes the name blacklists and the keyword exclusions
Passes(c) ==
    /\ \A k \in 1..Len(blacklist) : blacklist[k] # c.name
    /\ \A k \in 1..Len(cfgTempExclude) : cfgTempExclude[k] # c.name
    /\ \A k \in 1..Len(tempExclude) :
          ~Contains(c.name, tempExclude[k]) /\ ~Contains(c.type, tempExclude[k])

\* C10: the ranked list holds exactly the provider's candidates that pass
\* the blacklists and the exclusions and have a weight above 0, each as often
\* as the provider listed it, in non-increasing order of weight
C10_RankedExactly ==
    Ranked =>
        LET surv == SelectSeq(nearby, Passes)
            elig == SelectSeq(last.weighted, Positive)
        IN  /\ Len(last.weighted) = Len(surv)
            /\ \A i \in 1..Len(surv) :
                  /\ last.weighted[i].name = surv[i].name
                  /\ last.weighted[i].type = surv[i].type
            /\ Len(last.ranked) = Len(elig)
            /\ \A i \in 1..Len(elig) : Count(last.ranked, elig[i]) = Count(elig, elig[i])
            /\ \A i, j \in 1..Len(last.ranked) :
                  i < j => last.ranked[i].weight >= last.ranked[j].weight

\* a request whose ranking dropped a candidate by a filter and had to
\* reorder the rest
C10_Witness ==
    /\ Ranked
    /\ Len(last.weighted) < Len(nearby)
    /\ Len(last.ranked) >= 2
    /\ last.ranked # SelectSeq(last.weighted, Positive)

\* C11: ranking is idempotent: the weight sort applied to its own output,
\* weights unchanged, leaves the order as it is
C11_SortIdempotent ==
    Ranked => SortByWeight(last.ranked) = last.ranked

\* a ranked list of three with a tie, which the sort had to reorder
C11_Witness ==
    /\ Ranked
    /\ Len(last.ranked) = 3
    /\ last.ranked[2].weight = last.ranked[3].weight
    /\ last.ranked # SelectSeq(last.weighted, Positive)

\* the exact-name preference of a candidate, 100 when there is none
NameWeight(name) ==
    IF pref.present /\ name \in DOMAIN pref.restaurantMap
    THEN pref.restaurantMap[name] ELSE 100

\* the recency penalty of a candidate, 0 when the table has none
PenaltyOf(name) ==
    IF name \in DOMAIN GetAllPenalties THEN GetAllPenalties[name] ELSE 0

\* C12: for a candidate whose exact-name preference is absent or not 0, the
\* weight is the name weight (100 when absent), times the category weight
\* over 100 in truncating integer division when a matching category weight
\* other than 100 exists, plus the recency penalty, which is never scaled
C12_WeightFormula ==
    Ranked =>
        \A i \in 1..Len(last.weighted) :
            LET r   == last.weighted[i]
                cws == IF pref.present THEN GetCategoryWeight(pref, r.type) ELSE {100}
            IN  NameWeight(r.name) # 0 =>
                  \E cw \in cws :
                      r.weight = (IF cw # 100
                                  THEN TruncDiv(NameWeight(r.name) * cw, 100)
                                  ELSE NameWeight(r.name)) + PenaltyOf(r.name)

\* a candidate with a name weight, a category weight whose scaling truncates
\* and a recency penalty
C12_Witness ==
    /\ Ranked
    /\ \E i \in 1..Len(last.weighted) :
          LET r == last.weighted[i] IN
          /\ r.name \in DOMAIN pref.restaurantMap
          /\ NameWeight(r.name) # 0
          /\ GetCategoryWeight(pref, r.type) = {33}
          /\ (NameWeight(r.name) * 33) % 100 # 0
          /\ PenaltyOf(r.name) < 0

\* C13: an append whose write fails returns an error and still leaves the new
\* record at the end of the in-memory ledger; an append whose write succeeds
\* leaves the file with the whole in-memory ledger, the records whose own
\* write had failed included
C13_FailedWriteKept ==
    [][ records' # records =>
          /\ last'.appended
          /\ Len(records') = Len(records) + 1
          /\ SubSeq(records', 1, Len(records)) = records
          /\ last'.err => disk' = disk
          /\ ~last'.err => disk' = records' ]_vars

\* a successful append after one whose write had failed
C13_Witness ==
    /\ last.appended /\ ~last.err /\ last.unsaved > 0
    /\ Len(records) = 2 /\ disk = records

C15_SearchFailureFrame ==
    [][ (last'.handler = "recommend" /\ last'.search = "failed") =>
          /\ last'.err /\ ~last'.llm /\ last'.reply = "none"
          /\ messages' = messages
          /\ lastRestaurants' = lastRestaurants
          /\ last'.op = "GetRecommendation" => tempExclude' = tempExclude
          /\ last'.op = "Chat" =>
                tempExclude' = (IF ContainsAny(last'.input, exclusionTriggers)
                                THEN parseExclusion(tempExclude, last'.input)
                                ELSE tempExclude) ]_vars

\* a failed search in a conversation that has messages, an exclusion and
\* candidates on offer
C15_Witness ==
    /\ last.op = "GetRecommendation" /\ last.search = "failed"
    /\ messages # <<>> /\ tempExclude # <<>> /\ lastRestaurants # <<>>

\* C16: a weather failure never fails the request: the pipeline goes on with
\* the placeholder reading (unknown, 20 degrees, the neutral advisory), to the
\* search and to the ranking, which is the one the candidates, preferences
\* and ledger give; an error comes from the search or the language model
C16_WeatherAbsorbed ==
    (last.handler = "recommend" /\ ~weather.ok) =>
        /\ last.reading = [text |-> "unknown", temp |-> <<"2", "0">>]
        /\ last.advisory = "comfortable"
        /\ last.search # "none"
        /\ last.err => (last.search = "failed" \/ last.llm)
        /\ last.search = "ok" =>
              /\ Len(last.weighted) = Len(SelectSeq(nearby, Passes))
              /\ last.ranked = SortByWeight(SelectSeq(last.weighted, Positive))
              /\ last.ranked # <<>> => last.llm

\* a request answered by the language model while the weather lookup fails
C16_Witness ==
    /\ Ranked /\ ~weather.ok
    /\ Len(last.ranked) >= 2 /\ last.reply = "llm"

\* C17: Reset empties the messages, the exclusion list and the last-offered
\* list and leaves the ledger and the preferences as they were; a
\* confirmation turn directly after it gets the clarification request and
\* records nothing
C17_ResetFrame ==
    [][ /\ last'.op = "Reset" =>
              /\ messages' = <<>> /\ tempExclude' = <<>> /\ lastRestaurants' = <<>>
              /\ records' = records /\ disk' = disk /\ pref' = pref
        /\ (last.op = "Reset" /\ last'.op = "Chat"
               /\ ContainsAny(last'.input, confirmKeywords)) =>
              /\ last'.reply = "clarify" /\ ~last'.appended
              /\ records' = records ]_vars

\* a confirmation turn that found nothing on offer, in a conversation that
\* had confirmed a meal before
C17_Witness ==
    /\ last.op = "Chat" /\ last.handler = "confirm" /\ last.reply = "clarify"
    /\ lastRestaurants = <<>>
    /\ \E k \in 1..Len(records) : records[k].category # <<>>

\* C18: once stop has been signalled, the scheduler's task eventually
\* terminates, whether or not anything reads the notification channel
C18_StopTerminates == stopCh ~> (schedPc = "done")

\* C19: once stop has been signalled, no new recommendation run starts and
\* no further new-day reset happens
C19_NothingAfterStop ==
    [][stopCh => /\ ~(schedPc = "select" /\ schedPc' = "send")
                 /\ ~(ticker /\ ~ticker' /\ lastDate' # lastDate)]_vars

NamesOf(s) == { s[i].name : i \in 1..Len(s) }

IsTry(e) == e.ev # "sleep"
IsSleep(e) == e.ev = "sleep"
TriesOf(lg) == SelectSeq(lg, IsTry)
SleepsOf(lg) == SelectSeq(lg, IsSleep)

\* C22: a weather request makes at most 3 attempts; no attempt follows a
\* successful one; before attempt k > 1, and never before attempt 1, it has
\* waited k - 1 time units; it returns a reading exactly when its last attempt
\* succeeded, and failure exactly after 3 failed attempts; and every request
\* returns
C22_BoundedRetry ==
    /\ [](LET lg == weatherCall.log
              tries == TriesOf(lg)
              n == Len(tries)
          IN  /\ n <= 3
              /\ \A k \in 1..n : k < n => tries[k].ev = "fail"
              /\ \A i \in 1..Len(lg) :
                    LET before == Len(TriesOf(SubSeq(lg, 1, i - 1))) IN
                    /\ IsTry(lg[i]) /\ before > 0 =>
                          i > 1 /\ lg[i - 1] = Slept(before)
                    /\ IsSleep(lg[i]) =>
                          /\ before > 0
                          /\ i < Len(lg) => IsTry(lg[i + 1])
              /\ weatherCall.ret = "reading" <=> (n > 0 /\ tries[n].ev = "ok")
              /\ weatherCall.ret = "error" =>
                    /\ n = 3
                    /\ \A k \in 1..n : tries[k].ev = "fail"
                    /\ SleepsOf(lg) = << Slept(1), Slept(2) >>
                    /\ weather = WeatherDown
              /\ (n = 3 /\ tries[n].ev = "fail" /\ weatherCall.pc = "idle")
                    => weatherCall.ret = "error")
    /\ ((weatherCall.pc # "idle") ~> (weatherCall.pc = "idle"))

\* a request returned a reading from its third attempt, after two failures
\* and sleeps of 1 and 2
C22_Witness ==
    /\ weatherCall.pc = "idle"
    /\ weatherCall.ret = "reading"
    /\ Len(TriesOf(weatherCall.log)) = 3
    /\ SleepsOf(weatherCall.log) = << Slept(1), Slept(2) >>
    /\ weather.ok

\* C24: the advisory of a recommendation made with the provider's reading of
\* an integer temperature t is the cold text for t <= 5 (negative t
\* included), the cool text for 5 < t <= 15, the comfortable text for
\* 15 < t <= 25, the hot text for 25 < t <= 32 and the scorching text for
\* t > 32
C24_AdvisoryBrackets ==
    (last.handler = "recommend" /\ weather.ok) =>
        /\ \E t \in Temps : last.reading.temp = Itoa(t)
        /\ \A t \in Temps :
              last.reading.temp = Itoa(t) =>
                 /\ t <= 5 => last.advisory = "cold"
                 /\ (5 < t /\ t <= 15) => last.advisory = "cool"
                 /\ (15 < t /\ t <= 25) => last.advisory = "comfortable"
                 /\ (25 < t /\ t <= 32) => last.advisory = "hot"
                 /\ t > 32 => last.advisory = "scorching"

\* a recommendation was made at exactly 25 degrees
C24_Witness ==
    /\ last.handler = "recommend"
    /\ weather.ok
    /\ last.reading.temp = <<"2", "5">>
    /\ last.advisory = "comfortable"

\* C23: the summary asked for directly after a recordMeal, whether or not
\* its write succeeded, is not the sentinel; it lists the records of the
\* last 7 days in insertion order and ends with the new record, dated today
\* with the occasion of the hour
C23_SummaryHasNewRecord ==
    [][(last.op = "RecordMeal" /\ last.appended
          /\ last'.op = "GetHistorySummary") =>
          LET n == Len(records)
              k == Len(last'.summary)
              within == { i \in 1..n : records[i].date > now.day - 8 }
          IN  /\ last'.reply = "summary"
              /\ k = Cardinality(within)
              /\ k > 0
              /\ last'.summary[k] = records[n]
              /\ records[n].date = now.day
              /\ records[n].mealType = (IF now.hour < 15 THEN "lunch" ELSE "dinner")
              /\ \A i \in 1..k :
                    \E j \in within :
                       /\ last'.summary[i] = records[j]
                       /\ Cardinality({ j2 \in within : j2 < j }) = i - 1]_vars

\* the summary after a recordMeal whose write failed, with a record older
\* than a week in the ledger
C23_Witness ==
    /\ last.op = "GetHistorySummary"
    /\ Len(records) = 2
    /\ Len(disk) = 1
    /\ records[1].date < now.day - 7
    /\ last.summary = << records[2] >>

\* the turn names position k: first, second, third, fourth
SaysPosition(inp, k) ==
    Contains(inp, <<"di", <<"yi", "er", "san", "si">>[k]>>)

NamesCandidate(inp) ==
    \E i \in 1..Len(lastRestaurants) : Contains(inp, lastRestaurants[i].name)

\* C25: a confirmation turn that names position k, with at least k
\* candidates on offer, records the k-th candidate on offer, also when the
\* turn contains the name of another candidate or a bare confirmation phrase
C25_OrdinalFirst ==
    (last.op = "Chat" /\ last.handler = "confirm") =>
        \A k \in 1..3 :
           (/\ SaysPosition(last.input, k)
            /\ \A j \in 1..4 : SaysPosition(last.input, j) => j = k
            /\ k <= Len(lastRestaurants)) =>
               /\ last.appended
               /\ last.reply # "clarify"
               /\ records[Len(records)].restaurant = lastRestaurants[k].name

\* the third of three candidates was recorded by a turn that also contains
\* the name of the first
C25_Witness ==
    /\ last.op = "Chat"
    /\ last.input = SayThirdB
    /\ last.appended
    /\ Len(lastRestaurants) = 3
    /\ Contains(last.input, lastRestaurants[1].name)
    /\ records[Len(records)].restaurant = lastRestaurants[3].name

\* C26: a confirmation turn that names no candidate and only a position
\* that cannot be resolved (the fourth, or one beyond the candidates on
\* offer) gets the clarification request and records nothing
C26_UnresolvedOrdinalClarifies ==
    (/\ last.op = "Chat" /\ last.handler = "confirm"
     /\ ~NamesCandidate(last.input)
     /\ \E k \in 1..4 : SaysPosition(last.input, k)
     /\ \A k \in 1..4 : SaysPosition(last.input, k) =>
                           (k = 4 \/ k > Len(lastRestaurants))) =>
        last.reply = "clarify" /\ ~last.appended

\* C27: every message list a recommendation sends to the language model
\* begins with the system instruction, whatever turns preceded the request;
\* and the message list never holds a system message elsewhere than first
C27_SystemFirst ==
    /\ (last.handler = "recommend" /\ last.llm) => messages[1] = "system"
    /\ \A i \in 1..Len(messages) : messages[i] = "system" => i = 1

\* C28: a confirmation turn that directly follows a recommendation request
\* which found no eligible candidate, or whose search failed, records nothing
C28_NoStaleOffer ==
    [][(/\ last.handler = "recommend"
        /\ (last.reply = "noEligible" \/ last.search = "failed")
        /\ last'.handler = "confirm") => records' = records]_vars

\* the messages after the optional system message
Body(msgs) == IF msgs # <<>> /\ msgs[1] = "system" THEN Tail(msgs) ELSE msgs

\* C29: after every chat turn and every recommendation request, the message
\* list is empty, or an optional system message followed by user and
\* assistant messages in strict alternation, the last one an assistant
\* message
C29_Alternating ==
    (last.op \in {"Chat", "GetRecommendation"}) =>
        \/ messages = <<>>
        \/ /\ Len(Body(messages)) > 0
           /\ Len(Body(messages)) % 2 = 0
           /\ \A i \in 1..Len(Body(messages)) :
                 Body(messages)[i] = (IF i % 2 = 1 THEN "user" ELSE "assistant")

\* C30: the penalty GetRecentPenalty returns for a restaurant is the entry
\* GetAllPenalties holds for it, 0 when it holds none
C30_PenaltyQueriesAgree ==
    last.op = "GetRecentPenalty" =>
        last.penalty = (IF last.input \in DOMAIN last.table
                        THEN last.table[last.input] ELSE 0)

\* C31: two runs of the pipeline, one directly after the other, on the same
\* candidates, preferences, ledger, clock and exclusions give every
\* candidate the same weight and rank the candidates in the same order
C31_SameRanking ==
    [][(/\ last.op = "ManualTrigger" /\ last.search = "ok"
        /\ last'.op = "ManualTrigger" /\ last'.search = "ok") =>
          /\ last'.weighted = last.weighted
          /\ last'.ranked = last.ranked]_vars


====
